---- MODULE Spec2Model ----
(***************************************************************************)
(* bw_map.py: a street-map renderer.  The module models                    *)
(*   - _normalize_hex_color           (pure function, SpecColor)           *)
(*   - clean_cache_folder             (loop over a folder, SpecClean)      *)
(*   - the import guard, main and render_detailed_map (Spec), with every   *)
(*     external call (input, geocode, graph fetch, plot, save, flatten)    *)
(*     returning or raising nondeterministically.                          *)
(* Python strings are sequences of one-character strings.  An Optional     *)
(* value is None == <<>> or Some(v) == <<v>>.  Areas are in square metres  *)
(* as in the source.                                                       *)
(***************************************************************************)
EXTENDS Integers, Sequences, FiniteSets, TLC

VARIABLES
    pc,                           \* position of the program (import guard, main, render)
    deps_ok,                      \* whether `import osmnx, matplotlib` succeeds
    argv,                         \* sys.argv[1:]
    stdin_read,                   \* what input() gave: "unread", "line" or "eof"
    stdin_line,                   \* the line input() returned
    place,                        \* main's local `place`
    env_keep,                     \* os.environ.get("PYMAP_KEEP_CACHE")
    env_bg,                       \* os.environ.get("PYMAP_BG")
    exit_status,                  \* Optional process exit status
    render_invoked,               \* render_detailed_map has been called
    render_result,                \* "none", "returned" or "raised"
    main_error,                   \* "none", or the exception raised in the module's own code
    printed,                      \* a print has written to stdout
    max_query_area_size,          \* ox.settings.max_query_area_size (Optional)
    prior_limit,                  \* the setting's value when the program started
    cache_folder,                 \* ox.settings.cache_folder
    original_max_query_area_size, \* render's local of that name (Optional)
    area_m2,                      \* render's local of that name (Optional)
    bgcolor,                      \* render's local of that name
    geocode_calls,                \* number of ox.geocode_to_gdf calls
    geocode_failed,               \* the geocode/projection step raised
    config_failed,                \* Path("cache").resolve() of line 72 raised
    fetches,                      \* the ox.graph_from_place calls, in order
    save_done,                    \* savefig and plt.close completed
    output_file,                  \* the output path exists on disk
    flatten_result,               \* "none", or how flatten_png_background ended
    clean_calls,                  \* the folder arguments of clean_cache_folder calls
    clean_result,                 \* how the clean_cache_folder call of render ended
    cache,                        \* the folder on disk: kind, listable, children, present
    cache0,                       \* the folder as it was when clean_cache_folder was called
    clean_pc,                     \* position inside clean_cache_folder
    clean_listing,                \* the children folder.iterdir() yields
    clean_i,                      \* index of the next child of the loop
    attempted,                    \* children that received unlink / rmtree
    failed,                       \* children whose deletion failed
    untested,                     \* children whose is_file/is_symlink/is_dir raised
    clean_error,                  \* what raised out of clean_cache_folder, or "none"
    color_in,                     \* argument of _normalize_hex_color (Optional)
    color_out,                    \* its return value (Optional)
    color_pc                      \* "call", "returned" or "idle"

mainVars == <<pc, deps_ok, argv, stdin_read, stdin_line, place, exit_status,
              render_invoked, render_result, main_error, printed>>
envVars == <<env_keep, env_bg, prior_limit>>
renderVars == <<max_query_area_size, cache_folder, original_max_query_area_size,
                area_m2, bgcolor, geocode_calls, geocode_failed, config_failed,
                fetches, save_done, output_file, flatten_result, clean_calls,
                clean_result>>
cleanVars == <<cache, cache0, clean_pc, clean_listing, clean_i, attempted, failed,
               untested, clean_error>>
colorVars == <<color_in, color_out, color_pc>>
vars == <<mainVars, envVars, renderVars, cleanVars, colorVars>>

----------------------------------------------------------------------------
\* Bounds of the model.

\* longest string given to _normalize_hex_color
MaxLen == 8
\* most command-line arguments
MaxArgs == 2
\* most direct children of the folder given to clean_cache_folder
MaxChildren == 3

----------------------------------------------------------------------------
\* Values.

None == <<>>
Some(v) == <<v>>

\* The 29 characters str.strip() removes.  A character that has no escape in a
\* TLA+ string is written as its code point.
Whitespace == {"\t", "\n", "U+000B", "\f", "\r", "U+001C", "U+001D", "U+001E",
               "U+001F", " ", "U+0085", "U+00A0", "U+1680", "U+2000", "U+2001",
               "U+2002", "U+2003", "U+2004", "U+2005", "U+2006", "U+2007", "U+2008",
               "U+2009", "U+200A", "U+2028", "U+2029", "U+202F", "U+205F", "U+3000"}

\* The characters of line 48's digit string.
HexDigits == {"0", "1", "2", "3", "4", "5", "6", "7", "8", "9",
              "a", "b", "c", "d", "e", "f", "A", "B", "C", "D", "E", "F"}

DEFAULT_BG_COLOR == <<"#", "f", "8", "e", "a", "c", "2">>

LARGE_AREA_THRESHOLD_SQM == 2000000000

RECURSIVE lstrip(_)
lstrip(s) ==
    IF s = <<>> THEN s
    ELSE IF Head(s) \in Whitespace THEN lstrip(Tail(s)) ELSE s

RECURSIVE rstrip(_)
rstrip(s) ==
    IF s = <<>> THEN s
    ELSE IF s[Len(s)] \in Whitespace THEN rstrip(SubSeq(s, 1, Len(s) - 1)) ELSE s

\* str.strip()
strip(s) == rstrip(lstrip(s))

\* " ".join(args)
RECURSIVE join(_)
join(args) ==
    IF args = <<>> THEN <<>>
    ELSE IF Len(args) = 1 THEN args[1]
    ELSE args[1] \o <<" ">> \o join(Tail(args))

\* os.getenv(name, default)
getenv(value, default) == IF value = None THEN default ELSE value[1]

\* All strings over `alphabet` of length at most n.
StringsUpTo(alphabet, n) == UNION {[1..k -> alphabet] : k \in 0..n}

----------------------------------------------------------------------------
\* _normalize_hex_color (lines 38-50).

normalize_no_strip(color) ==
    IF color = None THEN None
    ELSE LET value == color[1]
         IN  IF value = <<>> \/ Head(value) # "#" THEN None
             ELSE IF Len(value) \notin {4, 7} THEN None
             ELSE IF \E i \in 2..Len(value) : value[i] \notin HexDigits THEN None
             ELSE Some(value)

\* An argument that is not a str is modelled by None (line 40).
_normalize_hex_color(color) ==
    IF color = None THEN None
    ELSE LET value == strip(color[1])
         IN  IF value = <<>> \/ Head(value) # "#" THEN None
             ELSE IF Len(value) \notin {4, 7} THEN None
             ELSE LET hex_part == Tail(value)
                  IN  IF ~(\A i \in 1..Len(hex_part) : hex_part[i] \in HexDigits)
                      THEN None
                      ELSE Some(value)

\* `x or default` on an Optional string: None and "" are falsy (line 80).
OrDefault(x, default) == IF x = None \/ x[1] = <<>> THEN default ELSE x[1]

ColorAlphabet == {" ", "#", "a", "g"}
\* strings with whitespace other than the space
ColorWhitespaceInputs ==
    {<<"\n", "#", "a", "b", "c">>, <<"#", "a", "b", "c", "\r", "\n">>,
     <<"U+00A0", "#", "a", "b", "c", "U+3000">>, <<"#", "a", "\t", "c">>,
     <<"\f", "U+000B", "#", "a", "b", "c", "d", "e", "f", "U+2028">>}
ColorInputs ==
    {None} \cup {Some(s) : s \in StringsUpTo(ColorAlphabet, MaxLen)
                                \cup ColorWhitespaceInputs}

NormalizeCall ==
    /\ color_pc = "call"
    /\ color_out' = _normalize_hex_color(color_in)
    /\ color_pc' = "returned"
    /\ UNCHANGED <<color_in, mainVars, envVars, renderVars, cleanVars>>

----------------------------------------------------------------------------
\* clean_cache_folder (lines 215-227).

ChildKinds == {"file", "symlink", "dir", "other"}

\* A folder path: absent, a file, or a directory with children 1..Len(children);
\* `present` are the children still on disk; an unlistable directory makes
\* iterdir() raise.
Folder(kind, listable, children) ==
    [kind |-> kind, listable |-> listable, children |-> children,
     present |-> 1..Len(children)]

FolderStates(n) ==
    {Folder("absent", TRUE, <<>>), Folder("file", TRUE, <<>>)}
    \cup {Folder("dir", l, c) : l \in BOOLEAN, c \in StringsUpTo(ChildKinds, n)}

\* lines 217-219: the guard and the directory listing.  exists() and is_dir()
\* are outside any try: a stat error other than "not found" (EACCES,
\* ENAMETOOLONG) leaves the function as an exception, and so does a failure of
\* iterdir().
CleanStart ==
    /\ clean_pc = "call"
    /\ cache0' = cache
    /\ attempted' = {}
    /\ failed' = {}
    /\ untested' = {}
    /\ clean_i' = 1
    /\ \/ /\ clean_pc' = "raised"
          /\ clean_error' = "stat"
          /\ clean_listing' = <<>>
       \/ IF cache.kind # "dir"
          THEN /\ clean_pc' = "returned"
               /\ clean_error' = "none"
               /\ clean_listing' = <<>>
          ELSE IF ~cache.listable
          THEN /\ clean_pc' = "raised"
               /\ clean_error' = "list"
               /\ clean_listing' = <<>>
          ELSE /\ clean_pc' = "loop"
               /\ clean_error' = "none"
               /\ clean_listing' = [i \in 1..Len(cache.children) |-> i]
    /\ UNCHANGED <<cache, mainVars, envVars, renderVars, colorVars>>

\* A loop without the try of line 220: a failed kind test or unlink escapes.
CleanChild_NoCatch ==
    /\ clean_pc = "loop"
    /\ clean_i <= Len(clean_listing)
    /\ LET child == clean_listing[clean_i]
           kind == cache.children[child]
       IN  \/ /\ untested' = untested \cup {child}
              /\ clean_pc' = "raised"
              /\ clean_error' = "child"
              /\ UNCHANGED <<attempted, failed, cache>>
           \/ /\ \E ok \in BOOLEAN :
                   /\ attempted' = IF kind \in {"file", "symlink", "dir"}
                                   THEN attempted \cup {child} ELSE attempted
                   /\ failed' = IF kind \in {"file", "symlink", "dir"} /\ ~ok
                                THEN failed \cup {child} ELSE failed
                   /\ cache' = IF kind \in {"file", "symlink", "dir"} /\ ok
                               THEN [cache EXCEPT !.present = @ \ {child}] ELSE cache
                   /\ clean_pc' = IF kind \in {"file", "symlink"} /\ ~ok
                                  THEN "raised" ELSE "loop"
                   /\ clean_error' = IF kind \in {"file", "symlink"} /\ ~ok
                                     THEN "child" ELSE "none"
              /\ UNCHANGED untested
    /\ clean_i' = clean_i + 1
    /\ UNCHANGED <<cache0, clean_listing, mainVars, envVars, renderVars, colorVars>>

\* lines 219-227: one iteration.  A kind test (is_file, is_symlink, is_dir) may
\* raise: line 226 discards the exception and the child gets no deletion
\* attempt.  unlink may raise (caught, line 226); rmtree with ignore_errors
\* may leave the directory behind without raising; a child that is neither a
\* file, a symlink nor a directory matches no branch.
CleanChild ==
    /\ clean_pc = "loop"
    /\ clean_i <= Len(clean_listing)
    /\ LET child == clean_listing[clean_i]
           kind == cache.children[child]
       IN  \/ /\ untested' = untested \cup {child}
              /\ UNCHANGED <<attempted, failed, cache>>
           \/ /\ \E ok \in BOOLEAN :
                   IF kind \in {"file", "symlink"}
                   THEN /\ attempted' = attempted \cup {child}
                        /\ failed' = IF ok THEN failed ELSE failed \cup {child}
                        /\ cache' = IF ok THEN [cache EXCEPT !.present = @ \ {child}]
                                    ELSE cache
                   ELSE IF kind = "dir"
                   THEN /\ attempted' = attempted \cup {child}
                        /\ failed' = IF ok THEN failed ELSE failed \cup {child}
                        /\ cache' = IF ok THEN [cache EXCEPT !.present = @ \ {child}]
                                    ELSE cache
                   ELSE /\ ok
                        /\ UNCHANGED <<attempted, failed, cache>>
              /\ UNCHANGED untested
    /\ clean_i' = clean_i + 1
    /\ UNCHANGED <<clean_pc, clean_error, cache0, clean_listing, mainVars, envVars,
                   renderVars, colorVars>>

\* the loop is exhausted and the function returns
CleanReturn ==
    /\ clean_pc = "loop"
    /\ clean_i > Len(clean_listing)
    /\ clean_pc' = "returned"
    /\ UNCHANGED <<cache, cache0, clean_listing, clean_i, attempted, failed,
                   untested, clean_error, mainVars, envVars, renderVars, colorVars>>

CleanNext == CleanStart \/ CleanChild \/ CleanReturn

----------------------------------------------------------------------------
\* The import guard (lines 22-29) and main (lines 195-212).

ArgStrings == {<<>>, <<" ", "A">>}
ArgvInputs == StringsUpTo(ArgStrings, MaxArgs)
StdinLines == {<<>>, <<" ", "\t">>, <<"U+00A0">>, <<"B", " ">>}

\* the variables of main that a step of render_detailed_map leaves alone
mainFrame == <<deps_ok, argv, stdin_read, stdin_line, place, main_error, printed>>

\* The process ends with status s (sys.exit(s), the end of main, or 1 after an
\* uncaught exception).  Every exit follows a print, whose text is in stdout's
\* buffer whether or not the print raised, or a traceback written to stderr;
\* when the flush of stdout or of stderr at interpreter exit fails, the status
\* is 120 instead.
ExitWith(s) ==
    /\ pc' = "exited"
    /\ exit_status' \in {Some(s), Some(120)}

\* An exception that nothing catches: traceback on stderr, status 1.
Uncaught(error) ==
    /\ main_error' = error
    /\ ExitWith(1)

\* lines 23-29: a failed import prints two hints and exits with status 1; a
\* print that raises inside the except clause is not caught (the first hint
\* may have been printed when the second raises)
ImportGuard ==
    /\ pc = "boot"
    /\ IF deps_ok
       THEN /\ pc' = "main"
            /\ UNCHANGED <<exit_status, main_error, printed>>
       ELSE \/ /\ printed' = TRUE
               /\ ExitWith(1)
               /\ UNCHANGED main_error
            \/ /\ printed' \in {printed, TRUE}
               /\ Uncaught("print_import")
    /\ UNCHANGED <<deps_ok, argv, stdin_read, stdin_line, place, render_invoked,
                   render_result, envVars, renderVars, cleanVars, colorVars>>

\* lines 197-199: the place of the arguments, and the prompt when it is empty
MainArgs ==
    /\ pc = "main"
    /\ place' = strip(join(argv))
    /\ IF place' = <<>>
       THEN \/ /\ printed' = TRUE
               /\ pc' = "prompt"
               /\ UNCHANGED <<exit_status, main_error>>
            \/ /\ UNCHANGED printed
               /\ Uncaught("print_prompt")
       ELSE /\ pc' = "check"
            /\ UNCHANGED <<exit_status, main_error, printed>>
    /\ UNCHANGED <<deps_ok, argv, stdin_read, stdin_line, render_invoked,
                   render_result, envVars, renderVars, cleanVars, colorVars>>

\* line 200: input() returns a line, or raises EOFError, which nothing catches
MainPrompt ==
    /\ pc = "prompt"
    /\ \/ \E line \in StdinLines :
            /\ stdin_read' = "line"
            /\ stdin_line' = line
            /\ place' = strip(line)
            /\ pc' = "check"
            /\ UNCHANGED <<exit_status, main_error, printed>>
       \/ /\ stdin_read' = "eof"
          /\ UNCHANGED <<stdin_line, place, printed>>
          /\ Uncaught("EOFError")
    /\ UNCHANGED <<deps_ok, argv, render_invoked, render_result, envVars,
                   renderVars, cleanVars, colorVars>>

\* lines 201-207: print and exit 1 on an empty place; else resolve the output
\* path (line 205, outside the try: a failure is not caught) and call
\* render_detailed_map
MainCheck ==
    /\ pc = "check"
    /\ IF place = <<>>
       THEN /\ \/ /\ printed' = TRUE
                  /\ ExitWith(1)
                  /\ UNCHANGED main_error
               \/ /\ UNCHANGED printed
                  /\ Uncaught("print_no_input")
            /\ UNCHANGED render_invoked
       ELSE \/ /\ pc' = "r_config"
               /\ render_invoked' = TRUE
               /\ UNCHANGED <<exit_status, main_error, printed>>
            \/ /\ UNCHANGED <<render_invoked, printed>>
               /\ Uncaught("resolve")
    /\ UNCHANGED <<deps_ok, argv, stdin_read, stdin_line, place, render_result, envVars,
                   renderVars, cleanVars, colorVars>>

\* line 208 and the end of main: status 0; the print is inside the try of
\* line 206, so a print that raises is handled by line 209
MainSuccess ==
    /\ pc = "m_ok"
    /\ \/ /\ printed' = TRUE
          /\ ExitWith(0)
          /\ UNCHANGED main_error
       \/ /\ main_error' = "print_saved"
          /\ pc' = "m_except"
          /\ UNCHANGED <<exit_status, printed>>
    /\ UNCHANGED <<deps_ok, argv, stdin_read, stdin_line, place, render_invoked,
                   render_result, envVars, renderVars, cleanVars, colorVars>>

\* A handler that reuses the "no input" status.
MainFailure_Status1 ==
    /\ pc = "m_except"
    /\ \/ /\ printed' = TRUE
          /\ ExitWith(1)
          /\ UNCHANGED main_error
       \/ /\ printed' \in {printed, TRUE}
          /\ Uncaught("print_failed")
    /\ UNCHANGED <<deps_ok, argv, stdin_read, stdin_line, place, render_invoked,
                   render_result, envVars, renderVars, cleanVars, colorVars>>

\* lines 209-212: the except clause of main prints twice and exits with
\* status 2; a print that raises here is not caught
MainFailure ==
    /\ pc = "m_except"
    /\ \/ /\ printed' = TRUE
          /\ ExitWith(2)
          /\ UNCHANGED main_error
       \/ /\ printed' \in {printed, TRUE}
          /\ Uncaught("print_failed")
    /\ UNCHANGED <<deps_ok, argv, stdin_read, stdin_line, place, render_invoked,
                   render_result, envVars, renderVars, cleanVars, colorVars>>

MainNext == ImportGuard \/ MainArgs \/ MainPrompt \/ MainCheck \/ MainSuccess
            \/ MainFailure

----------------------------------------------------------------------------
\* render_detailed_map (lines 53-192).

Areas == {1, LARGE_AREA_THRESHOLD_SQM - 1, LARGE_AREA_THRESHOLD_SQM,
          LARGE_AREA_THRESHOLD_SQM + 1, 2100000000}
\* A value of the setting that float() does not convert: the string 'abc'
\* (ValueError); an int beyond the range of a float (OverflowError) takes the
\* same path.  Neither osmnx nor this module assigns such a value (osmnx
\* starts with a number, line 105 assigns a float, line 122 the original), so
\* it is not among the values a run starts with.
Unconvertible == <<"str", <<"a", "b", "c">>>>

Limits == {None, Some(50), Some(210000000), Some(2100000000)}
KeepValues == {None, Some(<<>>), Some(<<"1">>), Some(<<" ", "1">>),
               Some(<<"1", "\n">>), Some(<<"U+00A0", "1", "\t">>), Some(<<"0">>)}
BgValues == {None, Some(<<"\n", "#", "a", "b", "c", " ">>)}
FlattenOutcomes == {"no_pillow", "no_alpha", "flattened", "raised"}

\* An area at the threshold taken for a small one.
UseMajorRoads_Strict(area) == area > LARGE_AREA_THRESHOLD_SQM

\* line 97
UseMajorRoads(area) == area >= LARGE_AREA_THRESHOLD_SQM

\* line 105: float(original_max_query_area_size) raises
FloatRaises(original) == Len(original) = 2

\* line 105: min(area_m2, float(original) * 10.0).  The product is formed only
\* when it is the minimum (10 * L <= area iff L <= area \div 10), so that it
\* stays within TLC's 32-bit integers.
RaisedLimit(area, original) ==
    IF original <= area \div 10 THEN original * 10 ELSE area

\* A flag compared without trimming.
KeepCache_Literal(value) == getenv(value, <<>>) = <<"1">>

\* line 187: os.getenv("PYMAP_KEEP_CACHE", "").strip() == "1"
KeepCache(value) == strip(getenv(value, <<>>)) = <<"1">>

\* an exception leaves render_detailed_map and reaches main's except clause
RenderRaises ==
    /\ render_result' = "raised"
    /\ pc' = "m_except"

\* lines 69-82: the osmnx settings and the background colour;
\* Path("cache").resolve() of line 72 may raise, and the exception propagates
RenderConfig ==
    /\ pc = "r_config"
    /\ \/ /\ cache_folder' = "cache_resolved"
          /\ bgcolor' = OrDefault(_normalize_hex_color(Some(getenv(env_bg, <<>>))),
                                  DEFAULT_BG_COLOR)
          /\ pc' = "r_geocode"
          /\ UNCHANGED <<config_failed, render_result>>
       \/ /\ config_failed' = TRUE
          /\ RenderRaises
          /\ UNCHANGED <<cache_folder, bgcolor>>
    /\ UNCHANGED <<mainFrame, exit_status, render_invoked, envVars,
                   max_query_area_size, original_max_query_area_size, area_m2,
                   geocode_calls, geocode_failed, fetches, save_done, output_file,
                   flatten_result, clean_calls, clean_result, cleanVars, colorVars>>

\* A geocoder that is asked again after a failure.
RenderGeocode_Retry ==
    /\ pc = "r_geocode"
    /\ geocode_calls' = geocode_calls + 1
    /\ \/ \E a \in Areas :
            /\ area_m2' = Some(a)
            /\ pc' = "r_fetch"
            /\ UNCHANGED <<geocode_failed, config_failed, render_result>>
       \/ /\ geocode_failed' = TRUE
          /\ IF geocode_calls = 0
             THEN pc' = "r_geocode" /\ UNCHANGED render_result
             ELSE RenderRaises
          /\ UNCHANGED area_m2
    /\ UNCHANGED <<mainFrame, exit_status,
                   render_invoked, envVars, max_query_area_size, cache_folder,
                   original_max_query_area_size, bgcolor, config_failed, fetches,
                   save_done, output_file, flatten_result, clean_calls, clean_result,
                   cleanVars, colorVars>>

\* lines 86-90: geocode, project, sum the area; any failure propagates
RenderGeocode ==
    /\ pc = "r_geocode"
    /\ geocode_calls' = geocode_calls + 1
    /\ \/ \E a \in Areas :
            /\ area_m2' = Some(a)
            /\ pc' = "r_fetch"
            /\ UNCHANGED <<geocode_failed, config_failed, render_result>>
       \/ /\ geocode_failed' = TRUE
          /\ RenderRaises
          /\ UNCHANGED area_m2
    /\ UNCHANGED <<mainFrame, exit_status,
                   render_invoked, envVars, max_query_area_size, cache_folder,
                   original_max_query_area_size, bgcolor, config_failed, fetches,
                   save_done, output_file, flatten_result, clean_calls, clean_result,
                   cleanVars, colorVars>>

\* lines 96-111 and 116-117: read the setting, raise it for a large area, and
\* make the first graph_from_place call, which returns or raises.  Line 105 is
\* inside the try of line 103: when float() raises, the setting is left as it
\* is, the curated call is not made and the except clause of line 112 runs.
RenderFetchFirst ==
    /\ pc = "r_fetch"
    /\ original_max_query_area_size' = max_query_area_size
    /\ IF /\ UseMajorRoads(area_m2[1])
          /\ max_query_area_size # None
          /\ FloatRaises(max_query_area_size)
       THEN /\ pc' = "r_fallback"
            /\ UNCHANGED <<max_query_area_size, fetches>>
       ELSE /\ max_query_area_size' =
                 IF UseMajorRoads(area_m2[1]) /\ max_query_area_size # None
                 THEN Some(RaisedLimit(area_m2[1], max_query_area_size[1]))
                 ELSE max_query_area_size
            /\ \E ok \in BOOLEAN :
                 /\ fetches' = Append(fetches,
                        [kind |-> IF UseMajorRoads(area_m2[1]) THEN "custom_filter"
                                  ELSE "drive_service",
                         limit |-> max_query_area_size',
                         ok |-> ok])
                 /\ pc' = IF ok THEN "r_restore" ELSE "r_fallback"
    /\ UNCHANGED <<mainFrame, exit_status,
                   render_invoked, render_result, envVars, cache_folder, area_m2,
                   bgcolor, geocode_calls, geocode_failed, config_failed, save_done, output_file,
                   flatten_result, clean_calls, clean_result, cleanVars, colorVars>>

\* lines 112-113 and 118-119: the except clauses; a failure here propagates
RenderFetchFallback ==
    /\ pc = "r_fallback"
    /\ \E ok \in BOOLEAN :
         /\ fetches' = Append(fetches,
                [kind |-> "drive", limit |-> max_query_area_size, ok |-> ok])
         /\ IF ok
            THEN pc' = "r_restore" /\ UNCHANGED render_result
            ELSE RenderRaises
    /\ UNCHANGED <<mainFrame, exit_status,
                   render_invoked, envVars, max_query_area_size, cache_folder,
                   original_max_query_area_size, area_m2, bgcolor, geocode_calls,
                   geocode_failed, config_failed, save_done, output_file, flatten_result, clean_calls,
                   clean_result, cleanVars, colorVars>>

\* lines 121-122
RenderRestore ==
    /\ pc = "r_restore"
    /\ max_query_area_size' =
         IF original_max_query_area_size # None THEN original_max_query_area_size
         ELSE max_query_area_size
    /\ pc' = "r_plot"
    /\ UNCHANGED <<mainFrame, exit_status,
                   render_invoked, render_result, envVars, cache_folder,
                   original_max_query_area_size, area_m2, bgcolor, geocode_calls,
                   geocode_failed, config_failed, fetches, save_done, output_file, flatten_result,
                   clean_calls, clean_result, cleanVars, colorVars>>

\* lines 126-166: plot the graph and add the labels; any failure propagates
RenderPlot ==
    /\ pc = "r_plot"
    /\ \/ pc' = "r_save" /\ UNCHANGED render_result
       \/ RenderRaises
    /\ UNCHANGED <<mainFrame, exit_status,
                   render_invoked, envVars, renderVars, cleanVars, colorVars>>

\* lines 169-177: mkdir, savefig, plt.close; a failure propagates, and may
\* leave a file behind
RenderSave ==
    /\ pc = "r_save"
    /\ \/ /\ save_done' = TRUE
          /\ output_file' = TRUE
          /\ pc' = "r_flatten"
          /\ UNCHANGED render_result
       \/ /\ output_file' \in BOOLEAN
          /\ RenderRaises
          /\ UNCHANGED save_done
    /\ UNCHANGED <<mainFrame, exit_status,
                   render_invoked, envVars, max_query_area_size, cache_folder,
                   original_max_query_area_size, area_m2, bgcolor, geocode_calls,
                   geocode_failed, config_failed, fetches, flatten_result, clean_calls, clean_result,
                   cleanVars, colorVars>>

\* A flattening failure that is not caught.
RenderFlatten_Propagates ==
    /\ pc = "r_flatten"
    /\ \E outcome \in FlattenOutcomes :
         /\ flatten_result' = outcome
         /\ IF outcome = "raised"
            THEN RenderRaises
            ELSE pc' = "r_cleanup" /\ UNCHANGED render_result
    /\ UNCHANGED <<mainFrame, exit_status,
                   render_invoked, envVars, max_query_area_size, cache_folder,
                   original_max_query_area_size, area_m2, bgcolor, geocode_calls,
                   geocode_failed, config_failed, fetches, save_done, output_file, clean_calls,
                   clean_result, cleanVars, colorVars>>

\* lines 181-184: flatten_png_background (lines 230-258) returns early without
\* Pillow or without an alpha band, rewrites the file, or raises; `except
\* Exception: pass` discards the failure
RenderFlatten ==
    /\ pc = "r_flatten"
    /\ \E outcome \in FlattenOutcomes : flatten_result' = outcome
    /\ pc' = "r_cleanup"
    /\ UNCHANGED <<mainFrame, exit_status,
                   render_invoked, render_result, envVars, max_query_area_size,
                   cache_folder, original_max_query_area_size, area_m2, bgcolor,
                   geocode_calls, geocode_failed, config_failed, fetches, save_done, output_file,
                   clean_calls, clean_result, cleanVars, colorVars>>

\* lines 187-189: unless the flag says keep, call clean_cache_folder
RenderCleanup ==
    /\ pc = "r_cleanup"
    /\ IF ~KeepCache(env_keep)
       THEN /\ clean_calls' = Append(clean_calls, cache_folder)
            /\ clean_pc' = "call"
            /\ pc' = "r_cleaning"
       ELSE /\ pc' = "r_return"
            /\ UNCHANGED <<clean_calls, clean_pc>>
    /\ UNCHANGED <<mainFrame, exit_status,
                   render_invoked, render_result, envVars, max_query_area_size,
                   cache_folder, original_max_query_area_size, area_m2, bgcolor,
                   geocode_calls, geocode_failed, config_failed, fetches, save_done, output_file,
                   flatten_result, clean_result, cache, cache0, clean_listing, clean_i,
                   attempted, failed, untested, clean_error, colorVars>>

\* lines 189-191: clean_cache_folder returned, or raised and `except
\* Exception: pass` discards the failure
RenderCleanupDone ==
    /\ pc = "r_cleaning"
    /\ clean_pc \in {"returned", "raised"}
    /\ clean_result' = clean_pc
    /\ clean_pc' = "idle"
    /\ pc' = "r_return"
    /\ UNCHANGED <<mainFrame, exit_status,
                   render_invoked, render_result, envVars, max_query_area_size,
                   cache_folder, original_max_query_area_size, area_m2, bgcolor,
                   geocode_calls, geocode_failed, config_failed, fetches, save_done, output_file,
                   flatten_result, clean_calls, cache, cache0, clean_listing, clean_i,
                   attempted, failed, untested, clean_error, colorVars>>

\* line 192
RenderReturn ==
    /\ pc = "r_return"
    /\ render_result' = "returned"
    /\ pc' = "m_ok"
    /\ UNCHANGED <<mainFrame, exit_status,
                   render_invoked, envVars, renderVars, cleanVars, colorVars>>

RenderNext == RenderConfig \/ RenderGeocode \/ RenderFetchFirst \/ RenderFetchFallback
              \/ RenderRestore \/ RenderPlot \/ RenderSave \/ RenderFlatten
              \/ RenderCleanup \/ RenderCleanupDone \/ RenderReturn

----------------------------------------------------------------------------
\* Specifications.

\* folders the cache directory is found in when the program runs
RenderCaches == {Folder("absent", TRUE, <<>>),
                 Folder("dir", TRUE, <<"file">>),
                 Folder("dir", TRUE, <<"file", "dir">>),
                 Folder("dir", FALSE, <<"file">>)}

RenderIdle ==
    /\ pc = "idle" /\ deps_ok = TRUE /\ argv = <<>> /\ stdin_read = "unread"
    /\ stdin_line = <<>> /\ place = <<>> /\ exit_status = None
    /\ render_invoked = FALSE /\ render_result = "none"
    /\ main_error = "none" /\ printed = FALSE /\ config_failed = FALSE
    /\ env_keep = None /\ env_bg = None /\ prior_limit = None
    /\ max_query_area_size = None /\ cache_folder = "cache_default"
    /\ original_max_query_area_size = None /\ area_m2 = None
    /\ bgcolor = DEFAULT_BG_COLOR /\ geocode_calls = 0 /\ geocode_failed = FALSE
    /\ fetches = <<>> /\ save_done = FALSE /\ output_file = FALSE
    /\ flatten_result = "none" /\ clean_calls = <<>> /\ clean_result = "none"

CleanIdle ==
    /\ cache0 = cache /\ clean_pc = "idle" /\ clean_listing = <<>> /\ clean_i = 1
    /\ attempted = {} /\ failed = {} /\ untested = {} /\ clean_error = "none"

ColorIdle ==
    /\ color_in = None /\ color_out = None /\ color_pc = "idle"

\* the whole program: import guard, main, render_detailed_map
Init ==
    /\ pc = "boot"
    /\ deps_ok \in BOOLEAN
    /\ argv \in ArgvInputs
    /\ stdin_read = "unread" /\ stdin_line = <<>> /\ place = <<>>
    /\ exit_status = None /\ render_invoked = FALSE /\ render_result = "none"
    /\ main_error = "none" /\ printed = FALSE /\ config_failed = FALSE
    /\ env_keep \in KeepValues
    /\ env_bg \in BgValues
    /\ max_query_area_size \in Limits
    /\ prior_limit = max_query_area_size
    /\ cache_folder = "cache_default"
    /\ original_max_query_area_size = None /\ area_m2 = None
    /\ bgcolor = DEFAULT_BG_COLOR /\ geocode_calls = 0 /\ geocode_failed = FALSE
    /\ fetches = <<>> /\ save_done = FALSE /\ output_file = FALSE
    /\ flatten_result = "none" /\ clean_calls = <<>> /\ clean_result = "none"
    /\ cache \in RenderCaches
    /\ CleanIdle
    /\ ColorIdle

Next == MainNext \/ RenderNext \/ CleanNext

Spec == Init /\ [][Next]_vars

\* clean_cache_folder called on any folder
InitClean ==
    /\ RenderIdle
    /\ cache \in FolderStates(MaxChildren)
    /\ cache0 = cache /\ clean_pc = "call" /\ clean_listing = <<>> /\ clean_i = 1
    /\ attempted = {} /\ failed = {} /\ untested = {} /\ clean_error = "none"
    /\ ColorIdle

SpecClean == InitClean /\ [][CleanNext]_vars

\* _normalize_hex_color called on any string
InitColor ==
    /\ RenderIdle
    /\ cache = Folder("absent", TRUE, <<>>)
    /\ CleanIdle
    /\ color_in \in ColorInputs /\ color_out = None /\ color_pc = "call"

SpecColor == InitColor /\ [][NormalizeCall]_vars

----------------------------------------------------------------------------
\* Properties.

RenderEnded == render_result \in {"returned", "raised"}
CleanEnded == clean_pc \in {"returned", "raised"}
CleanupReached ==
    \/ pc \in {"r_cleaning", "r_return"}
    \/ render_result = "returned"

\* C1: whenever a render_detailed_map call has ended, by returning or by an
\* exception, and the prior max_query_area_size was not None, the setting
\* equals its prior value.
C1_SettingRestoredOnEveryExit ==
    (RenderEnded /\ prior_limit # None) => max_query_area_size = prior_limit

\* C2: the graph fetches of one call are decided by the area and the first
\* outcome: the first uses the curated filter iff area >= 2,000,000,000 and
\* "drive_service" otherwise; a second one, with "drive", is made iff the first
\* failed; there are never more than two; a failed "drive" fetch ends the call
\* with the exception.
C2_FetchSequence ==
    LET n == Len(fetches)
    IN  /\ n <= 2
        /\ n >= 1 =>
             /\ area_m2 # None
             /\ fetches[1].kind = IF area_m2[1] >= 2000000000 THEN "custom_filter"
                                  ELSE "drive_service"
        /\ n = 1 => (fetches[1].ok <=> pc # "r_fallback")
        /\ n = 2 => ~fetches[1].ok /\ fetches[2].kind = "drive"
        /\ (n = 2 /\ ~fetches[2].ok) =>
             render_result = "raised" /\ pc \in {"m_except", "exited"}
        /\ pc \in {"r_restore", "r_plot", "r_save", "r_flatten", "r_cleanup",
                   "r_cleaning", "r_return", "m_ok"} =>
             n >= 1 /\ fetches[n].ok

C2_Witness ==
    /\ area_m2 = Some(LARGE_AREA_THRESHOLD_SQM)
    /\ Len(fetches) = 2
    /\ fetches[1].kind = "custom_filter"
    /\ ~fetches[2].ok
    /\ pc = "exited"

\* C3: once the image is saved the call returns output_path: a failure of
\* flatten_png_background or of clean_cache_folder never ends the call with an
\* exception, and after a flattening failure the cleanup step still runs.
C3_PostSaveAlwaysReturns ==
    /\ save_done => render_result # "raised"
    /\ (save_done /\ pc \in {"m_ok", "m_except", "exited"}) =>
         /\ render_result = "returned"
         /\ flatten_result # "none"
    /\ (flatten_result = "raised" /\ pc \in {"r_return", "m_ok", "m_except", "exited"}) =>
         \/ strip(getenv(env_keep, <<>>)) = <<"1">>
         \/ Len(clean_calls) = 1 /\ clean_result # "none"

C3_Witness ==
    /\ pc = "exited"
    /\ flatten_result = "raised"
    /\ clean_result = "raised"
    /\ render_result = "returned"

\* C4 as claimed: in a call that reaches the cleanup step, clean_cache_folder
\* is skipped iff PYMAP_KEEP_CACHE is exactly "1", and is otherwise invoked on
\* the configured cache folder.
C4_SkippedIffLiteralOne ==
    CleanupReached =>
        /\ clean_calls = <<>> <=> env_keep = Some(<<"1">>)
        /\ clean_calls # <<>> => clean_calls = <<cache_folder>>

\* C4 as amended: cleanup is skipped iff the value of PYMAP_KEEP_CACHE, with
\* leading and trailing whitespace removed, is "1"; otherwise (absent included)
\* clean_cache_folder is invoked once, on the configured cache folder.
C4_SkippedIffTrimmedOne ==
    CleanupReached =>
        /\ clean_calls = <<>> <=>
             (env_keep # None /\ strip(env_keep[1]) = <<"1">>)
        /\ clean_calls # <<>> => clean_calls = <<"cache_resolved">>

C4_Witness ==
    /\ CleanupReached
    /\ env_keep = Some(<<" ", "1">>)
    /\ clean_calls = <<>>
    /\ pc = "exited"

\* C5: with PYMAP_KEEP_CACHE unset, every render_detailed_map call that has
\* ended, by returning or by an exception, has invoked clean_cache_folder.
C5_CleanedAfterEveryRun ==
    (RenderEnded /\ env_keep = None) => Len(clean_calls) >= 1

Deletable(folder) ==
    {i \in 1..Len(folder.children) : folder.children[i] \in {"file", "symlink", "dir"}}

\* C6 as claimed: a folder that is absent or no directory is left unchanged;
\* otherwise every direct child receives a deletion attempt, no per-child
\* failure escapes, the folder still exists, and it is empty when no deletion
\* failed.
C6_EveryChildAttempted ==
    CleanEnded =>
        /\ cache0.kind # "dir" => cache = cache0 /\ attempted = {}
        /\ clean_error # "child"
        /\ cache.kind = cache0.kind
        /\ (cache0.kind = "dir" /\ clean_pc = "returned") =>
             /\ attempted = 1..Len(cache0.children)
             /\ failed = {} => cache.present = {}

\* C6 as amended: a folder that is absent or no directory is left unchanged;
\* the only exceptions that leave the function are a failure of the folder's
\* own existence/type test (line 217) and a failure to list the directory,
\* and both leave everything unchanged; when the directory is listed, every
\* direct child whose kind tests complete and find a file, a symlink or a
\* directory receives a deletion attempt whatever happens to the others; a
\* child of another kind, or one whose kind test raises, receives none and
\* stays; the folder still exists, and when no deletion failed and no kind
\* test raised exactly the children of other kinds remain.
C6_DeletableChildrenAttempted ==
    CleanEnded =>
        /\ cache0.kind # "dir" => cache = cache0 /\ attempted = {}
        /\ clean_pc = "raised" =>
             /\ clean_error \in {"stat", "list"}
             /\ clean_error = "list" => cache0.kind = "dir" /\ ~cache0.listable
             /\ cache = cache0 /\ attempted = {}
        /\ clean_pc = "returned" => clean_error = "none"
        /\ cache.kind = cache0.kind
        /\ cache.children = cache0.children
        /\ (cache0.kind = "dir" /\ clean_pc = "returned") =>
             /\ cache0.listable
             /\ untested \subseteq 1..Len(cache0.children)
             /\ attempted = Deletable(cache0) \ untested
             /\ failed \subseteq attempted
             /\ cache.present = (1..Len(cache0.children)) \ (attempted \ failed)
             /\ (failed = {} /\ untested = {}) =>
                  cache.present = (1..Len(cache0.children)) \ Deletable(cache0)

C6_Witness ==
    /\ clean_pc = "returned"
    /\ cache0.children = <<"file", "other", "dir">>
    /\ failed = {1}
    /\ untested = {3}
    /\ cache.present = {1, 2, 3}

NoInputOutcome ==
    /\ deps_ok
    /\ strip(join(argv)) = <<>>
    /\ stdin_read = "line"
    /\ strip(stdin_line) = <<>>

\* C7 as claimed: an empty place (after trimming the joined arguments and the
\* trimmed response) exits 1 without invoking render_detailed_map; a raising
\* render exits 2; a returning render ends with 0; and status 1 is produced by
\* no other outcome.
C7_NoInputStatusOnlyForNoInput ==
    pc = "exited" =>
        /\ NoInputOutcome => exit_status = Some(1) /\ ~render_invoked
        /\ render_result = "raised" => exit_status = Some(2)
        /\ render_result = "returned" => exit_status = Some(0)
        /\ exit_status = Some(1) => NoInputOutcome

\* an exception of the module's own code that nothing catches
UncaughtErrors == {"print_import", "print_prompt", "EOFError", "print_no_input",
                   "resolve", "print_failed"}

\* C7 as amended: the status is 120 when the flush of stdout or of stderr at
\* exit fails.
\* Otherwise it is 1 exactly when the place is empty, when the import of the
\* dependencies fails, or when an exception is not caught (end-of-input at the
\* prompt, a failing Path.resolve() at line 205, a failing print outside the
\* try or inside the except clause); render_detailed_map is never invoked
\* with an empty place.  It is 2 exactly when render_detailed_map raised, or
\* returned and the print of line 208 raised, and the handler's prints
\* succeeded; it is 0 exactly when render_detailed_map returned and that print
\* succeeded.
C7_ExitStatus ==
    pc = "exited" =>
        /\ exit_status \in {Some(0), Some(1), Some(2), Some(120)}
        /\ NoInputOutcome => ~render_invoked /\ exit_status \in {Some(1), Some(120)}
        /\ ~deps_ok => ~render_invoked
        /\ render_invoked => render_result # "none"
        /\ exit_status # Some(120) =>
             /\ exit_status = Some(1) <=>
                  (NoInputOutcome \/ ~deps_ok \/ main_error \in UncaughtErrors)
             /\ exit_status = Some(2) <=>
                  /\ main_error \notin UncaughtErrors
                  /\ render_result = "raised" \/ main_error = "print_saved"
             /\ exit_status = Some(0) <=>
                  render_result = "returned" /\ main_error = "none"

C7_Witness ==
    /\ pc = "exited"
    /\ NoInputOutcome
    /\ Len(argv) = 2
    /\ stdin_line # <<>>
    /\ main_error = "none"
    /\ exit_status = Some(1)

Malformed(s) ==
    \/ s = <<>>
    \/ Head(s) # "#"
    \/ Len(s) \notin {4, 7}
    \/ \E i \in 2..Len(s) : s[i] \notin HexDigits

\* C8 as claimed: for a string s the result is None whenever s does not start
\* with '#', or its length is not 4 or 7, or a character after '#' is no hex
\* digit; otherwise it is a string of that form.
C8_NoneIffRawMalformed ==
    (color_pc = "returned" /\ color_in # None) =>
        IF Malformed(color_in[1]) THEN color_out = None
        ELSE color_out # None /\ ~Malformed(color_out[1])

\* C8 as amended: the three rules apply to s with leading and trailing
\* whitespace removed: the result is None when the trimmed string breaks one
\* of them, and otherwise it is the trimmed string, which starts with '#', has
\* length 4 or 7 and only hex digits after '#'.
C8_NoneIffTrimmedMalformed ==
    color_pc = "returned" =>
        /\ color_out = None \/ ~Malformed(color_out[1])
        /\ color_in = None => color_out = None
        /\ color_in # None =>
             IF Malformed(strip(color_in[1])) THEN color_out = None
             ELSE color_out = Some(strip(color_in[1]))

C8_Witness ==
    /\ color_pc = "returned"
    /\ color_in = Some(<<" ", "#", "a", "a", "a", "a", "a", "a">>)
    /\ color_out = Some(<<"#", "a", "a", "a", "a", "a", "a">>)

\* C9: in the large-area branch with a prior limit L that is not None, the
\* limit in effect during the curated fetch is min(area, 10 * L) and is never
\* lower than L.
C9_LimitIsARaise ==
    \A i \in 1..Len(fetches) :
        (fetches[i].kind = "custom_filter" /\ prior_limit # None) =>
            LET lim == fetches[i].limit[1]
                L == prior_limit[1]
                area == area_m2[1]
            IN  /\ lim <= area
                /\ \/ lim = area /\ L >= (area + 9) \div 10
                   \/ lim % 10 = 0 /\ lim \div 10 = L
                /\ lim >= L

\* C10 as claimed: geocoding is attempted exactly once per call and before any
\* graph fetch; when it fails the exception leaves the call with no retry, no
\* fetch, no output file and no flattening, and main exits with status 2.
C10_GeocodeExactlyOnce ==
    /\ geocode_calls <= 1
    /\ fetches # <<>> => geocode_calls = 1 /\ ~geocode_failed /\ area_m2 # None
    /\ RenderEnded => geocode_calls = 1
    /\ geocode_failed =>
         /\ render_result = "raised"
         /\ fetches = <<>>
         /\ ~output_file /\ ~save_done
         /\ flatten_result = "none"
         /\ pc \in {"m_except", "exited"}
         /\ pc = "exited" => exit_status = Some(2)

\* C10 as amended: geocoding is attempted at most once per call, before any
\* graph fetch, and exactly once unless the settings step raised first
\* (Path("cache").resolve(), line 72); when it fails the exception leaves the
\* call with no retry, no fetch, no output file and no flattening, and main
\* exits with status 2 when its two prints of the report succeed (1 when one
\* of them raises) and the flushes of stdout and stderr at exit succeed (120
\* otherwise).
C10_GeocodeOnceNoRetry ==
    /\ geocode_calls <= 1
    /\ fetches # <<>> => geocode_calls = 1 /\ ~geocode_failed /\ area_m2 # None
    /\ RenderEnded => (geocode_calls = 1 <=> ~config_failed)
    /\ config_failed => geocode_calls = 0 /\ render_result = "raised"
    /\ geocode_failed =>
         /\ render_result = "raised"
         /\ fetches = <<>>
         /\ ~output_file /\ ~save_done
         /\ flatten_result = "none"
         /\ pc \in {"m_except", "exited"}
         /\ pc = "exited" =>
              \/ exit_status = Some(120)
              \/ exit_status = Some(1) /\ main_error = "print_failed"
              \/ exit_status = Some(2) /\ main_error = "none"

C10_Witness ==
    /\ geocode_failed
    /\ geocode_calls = 1
    /\ pc = "exited"
    /\ main_error = "none"
    /\ exit_status = Some(2)

====
